---- MODULE Spec2Model ----
(***************************************************************************)
(* Model of the task lifecycle orchestrator of fimreal/god: the Manager,   *)
(* its Start sequence, the init and service runners, and the health        *)
(* handler.  Two revisions of the Manager are kept in the repository and   *)
(* both are modelled; the variable rev says which one a behaviour runs:    *)
(*   "main"    : src/main.go           (init tasks run concurrently)       *)
(*   "manager" : src/unnamed/part_004  (init tasks run one after another)  *)
(* A step is one access to shared state (a lock, a field, the gate, a wait  *)
(* group) together with the local computation around it.  proc.Alive is    *)
(* read and written without proc.mu; such a read yields the value held at  *)
(* the step that reads it.                                                 *)
(*                                                                         *)
(* Four specifications are given:                                          *)
(*   Spec     : the Manager driven through its methods, as the tests do:   *)
(*              AddProcess, Start and HealthCheckHandler at any time;      *)
(*   MainSpec : the Manager driven by main() of src/main.go (the only      *)
(*              main() kept, used for both revisions): flags, argument     *)
(*              loops, Start, the health server, the signal goroutine,     *)
(*              Wait; nothing moves once the process has ended;            *)
(*   ArgsSpec : the argument loops of main() alone, over flag values with  *)
(*              and without aliases.                                       *)
(*   WriterSpec : prefixedWriter.Write alone, the writer the runners put   *)
(*              between a child's output and the supervisor's: one call    *)
(*              per step over short byte strings.                          *)
(* Signals are delivered only to the channel main() registers; /bin/sh is  *)
(* taken to exist, so AddProcess always builds "sh -c <command>".          *)
(***************************************************************************)
EXTENDS Integers, Sequences, FiniteSets, TLC

\* Longest task list that is explored.
MaxTasks == 2

\* Longest byte string handed to prefixedWriter.Write.
MaxLen == 4

Revisions == {"main", "manager"}

TaskTypeInit == 0
TaskTypeService == 1
TaskTypes == {TaskTypeInit, TaskTypeService}

\* The alias main() generates for the entry at position i of the -i list
\* ("init" + strconv.Itoa(i+1)) and of the -c list ("app" + ...).
AutoAlias(taskType, i) ==
  IF taskType = TaskTypeInit THEN "init" \o ToString(i + 1)
  ELSE "app" \o ToString(i + 1)

\* Exit statuses a child process reports when it exits by itself.
ExitStatuses == {0, 1, 3}

defaultListenAddr == "127.0.0.1:7788"

StatusOK == 200
StatusInternalServerError == 500

VARIABLES
  rev,            \* revision of the Manager code that runs
  processes,      \* m.processes: sequence of Process records
  cmd,            \* per task: the child process behind proc.Cmd
  initDone,       \* m.initDone is closed
  wg,             \* m.wg counter
  initWg,         \* initWg counter (local of Start in main.go)
  pcStart,        \* position of the thread that calls Start
  startI,         \* loop index of Start
  allInitSuccess, \* local of Start in main.go
  startErr,       \* what Start returned: "none" (not yet), "nil", "error"
  pcRun,          \* per task: position of its runner
  pcHealth,       \* position of the health handler
  healthI,        \* loop index of the health handler
  response,       \* response lines built so far by the handler
  allHealthy,     \* local of the handler
  w,              \* the last answer written: [code, body]
  listenAddr,     \* main: the -l flag
  initCommands,   \* main: the -i flags, in order
  commands,       \* main: the -c flags, in order
  argI,           \* main: index of the argument loop that runs
  pcMain,         \* position of main()
  http,           \* the health HTTP server: "off", "starting", "serving",
                  \* "bindfailed"
  pcSig,          \* position of the goroutine that waits for a signal
  cancelled,      \* m.cancel() was called (m.ctx is done)
  exit,           \* "running", or how the supervisor process ended
  calm,           \* history: health queries begun since the last change of
                  \* a task's state or of the gate, counted up to 2
  pw              \* the last call of prefixedWriter.Write: its input, what
                  \* it handed to the underlying writer, what it returned

vars == <<rev, processes, cmd, initDone, wg, initWg, pcStart, startI,
          allInitSuccess, startErr, pcRun, pcHealth, healthI, response,
          allHealthy, w, listenAddr, initCommands, commands, argI, pcMain,
          http, pcSig, cancelled, exit, calm, pw>>

startVars == <<pcStart, startI, allInitSuccess, startErr>>
healthVars == <<pcHealth, healthI, response, allHealthy, w>>
mainVars == <<listenAddr, initCommands, commands, argI, pcMain, http, pcSig,
              cancelled, exit>>

-----------------------------------------------------------------------------
\* Data

Process(name, command, taskType) ==
  [Name |-> name, Command |-> command, Type |-> taskType, Alive |-> FALSE,
   ExitCode |-> 0, Success |-> FALSE, mu |-> "free"]

NewCmd == [state |-> "new", status |-> 0]

Tasks == 1..Len(processes)

RECURSIVE OfType(_, _)
OfType(t, n) ==
  IF n = 0 THEN <<>>
  ELSE IF processes[n].Type = t THEN Append(OfType(t, n - 1), n)
       ELSE OfType(t, n - 1)

\* Start's partition of m.processes, as indices in original order.
initTasks == OfType(TaskTypeInit, Len(processes))
serviceTasks == OfType(TaskTypeService, Len(processes))

IsInit(i) == processes[i].Type = TaskTypeInit
IsService(i) == processes[i].Type = TaskTypeService

\* What cmd.Wait() returns for a child that ended as c.
WaitError(c) ==
  IF c.state = "exited" /\ c.status = 0 THEN "nil"
  ELSE IF c.state \in {"exited", "signaled"} THEN "ExitError"
  ELSE "error"

\* exitErr.ExitCode(): the status of an exited child, -1 for a signalled one.
ExitErrorCode(c) == IF c.state = "exited" THEN c.status ELSE -1

\* The ways a launched child can end, as cmd.Wait() sees them.
WaitOutcomes ==
  {[state |-> "exited", status |-> s] : s \in ExitStatuses}
    \cup {[state |-> "signaled", status |-> -1],
          [state |-> "waitfailed", status |-> -1]}

\* What a health report is made from: the task list with every task's
\* fields (the lock apart), and the gate.
TaskState ==
  <<[i \in Tasks |-> [processes[i] EXCEPT !.mu = "free"]], initDone>>

\* The history variable calm across a step that is not the start of a query.
Track == calm' = IF TaskState' = TaskState THEN calm ELSE 0

\* calm across the step that begins a query.
TrackQuery == calm' = IF calm < 2 THEN calm + 1 ELSE 2

-----------------------------------------------------------------------------
\* prefixedWriter

Newline == "\n"

\* The bytes a child writes, as far as the writer tells them apart.
Bytes == {"a", Newline}

\* pw.name of the writers that are explored.
WriterNames == {<<"t">>}

\* Byte strings of length up to n.
RECURSIVE Strings(_)
Strings(n) ==
  IF n = 0 THEN {<<>>}
  ELSE LET S == Strings(n - 1) IN
         S \cup {Append(s, b) : s \in {t \in S : Len(t) = n - 1}, b \in Bytes}

\* strings.Split(s, "\n")
RECURSIVE Split(_)
Split(s) ==
  IF \A k \in 1..Len(s) : s[k] # Newline THEN <<s>>
  ELSE LET k == CHOOSE k \in 1..Len(s) :
                  s[k] = Newline /\ \A h \in 1..(k - 1) : s[h] # Newline
       IN <<SubSeq(s, 1, k - 1)>> \o Split(SubSeq(s, k + 1, Len(s)))

\* fmt.Sprintf("[%s] ", name)
Prefix(name) == <<"[">> \o name \o <<"]", " ">>

\* pw.writer.Write, the call number k of one Write: it fails when k is
\* failAt (0: the underlying writer never fails).
UnderlyingFails(k, failAt) == k = failAt

\* The loop of Write in main.go from line i on; st holds what was handed to
\* the underlying writer and n so far.
RECURSIVE WriteLoopMain(_, _, _, _, _)
WriteLoopMain(name, lines, i, failAt, st) ==
  IF i > Len(lines) THEN [st EXCEPT !.err = "nil"]
  ELSE LET line == IF i > 1 /\ i < Len(lines)
                   THEN <<Newline>> \o lines[i] ELSE lines[i]
       IN IF line # <<>>
          THEN IF UnderlyingFails(Len(st.out) + 1, failAt)
               THEN [st EXCEPT !.err = "error"]
               ELSE WriteLoopMain(name, lines, i + 1, failAt,
                      [st EXCEPT !.out = Append(@, Prefix(name) \o line),
                                 !.n = @ + Len(line)])
          ELSE WriteLoopMain(name, lines, i + 1, failAt, st)

\* The loop of Write in writer.go from line i on; st.n is totalWritten.
RECURSIVE WriteLoopManager(_, _, _, _, _)
WriteLoopManager(name, lines, i, failAt, st) ==
  IF i > Len(lines) THEN [st EXCEPT !.err = "nil"]
  ELSE IF lines[i] # <<>>
       THEN IF UnderlyingFails(Len(st.out) + 1, failAt)
            THEN [st EXCEPT !.err = "error"]
            ELSE LET prefixedLine == Prefix(name) \o lines[i] \o <<Newline>>
                 IN WriteLoopManager(name, lines, i + 1, failAt,
                      [st EXCEPT !.out = Append(@, prefixedLine),
                                 !.n = @ + Len(prefixedLine)])
       ELSE WriteLoopManager(name, lines, i + 1, failAt, st)

\* prefixedWriter.Write(p) of the revision r: the chunks handed to the
\* underlying writer, and the results n and err.
prefixedWriterWrite(r, name, p, failAt) ==
  LET st0 == [out |-> <<>>, n |-> 0, err |-> "nil"] IN
    IF Len(p) = 0 THEN st0
    ELSE IF r = "main" THEN WriteLoopMain(name, Split(p), 1, failAt, st0)
    ELSE LET st == WriteLoopManager(name, Split(p), 1, failAt, st0) IN
           IF st.err = "nil" THEN [st EXCEPT !.n = Len(p)] ELSE st

\* No Write has been called yet.
NoWrite ==
  [called |-> FALSE, name |-> <<>>, p |-> <<>>, failAt |-> 0, out |-> <<>>,
   n |-> 0, err |-> "nil"]

-----------------------------------------------------------------------------
\* NewManager

Init ==
  /\ rev \in Revisions
  /\ processes = <<>>
  /\ cmd = <<>>
  /\ initDone = FALSE
  /\ wg = 0
  /\ initWg = 0
  /\ pcStart = "new"
  /\ startI = 0
  /\ allInitSuccess = TRUE
  /\ startErr = "none"
  /\ pcRun = <<>>
  /\ pcHealth = "idle"
  /\ healthI = 0
  /\ response = <<>>
  /\ allHealthy = TRUE
  /\ w = [code |-> 0, body |-> <<>>]
  /\ listenAddr = defaultListenAddr
  /\ initCommands = <<>>
  /\ commands = <<>>
  /\ argI = 0
  /\ pcMain = "flags"
  /\ http = "off"
  /\ pcSig = "none"
  /\ cancelled = FALSE
  /\ exit = "running"
  /\ calm = 0
  /\ pw = NoWrite

\* Manager.AddProcess, called before Start; the caller's own variables are
\* left to the caller.
AddProcess(name, command, taskType) ==
  /\ pcStart = "new"
  /\ pcHealth = "idle"
  /\ Len(processes) < MaxTasks
  /\ processes' = Append(processes, Process(name, command, taskType))
  /\ cmd' = Append(cmd, NewCmd)
  /\ pcRun' = Append(pcRun, "none")
  /\ UNCHANGED <<pw, rev, initDone, wg, initWg, startVars, healthVars>>
  /\ Track

-----------------------------------------------------------------------------
\* Manager.Start

\* Entry of Start: the partition loop, then the branch on len(initTasks).
StartCall ==
  /\ pcStart = "new"
  /\ pcStart' = IF Len(initTasks) > 0
                THEN (IF rev = "main" THEN "init_spawn" ELSE "init_run")
                ELSE "close"
  /\ startI' = 1
  /\ UNCHANGED <<mainVars, pw, rev, processes, cmd, initDone, wg, initWg, allInitSuccess,
                 startErr, pcRun, healthVars>>
  /\ Track

\* main.go: initWg.Add(1); go m.runInitTask(proc, &initWg)
StartSpawnInit ==
  /\ rev = "main"
  /\ pcStart = "init_spawn"
  /\ initWg' = initWg + 1
  /\ pcRun' = [pcRun EXCEPT ![initTasks[startI]] = "start"]
  /\ IF startI < Len(initTasks)
     THEN /\ startI' = startI + 1
          /\ pcStart' = "init_spawn"
     ELSE /\ startI' = 1
          /\ pcStart' = "init_wait"
  /\ UNCHANGED <<mainVars, pw, rev, processes, cmd, initDone, wg, allInitSuccess, startErr,
                 healthVars>>
  /\ Track

\* Start without the join on initWg.
StartInitWaitNoJoin ==
  /\ rev = "main"
  /\ pcStart = "init_wait"
  /\ pcStart' = "init_check"
  /\ startI' = 1
  /\ allInitSuccess' = TRUE
  /\ UNCHANGED <<mainVars, pw, rev, processes, cmd, initDone, wg, initWg, startErr, pcRun,
                 healthVars>>
  /\ Track

\* main.go: initWg.Wait(); allInitSuccess := true
StartInitWait ==
  /\ rev = "main"
  /\ pcStart = "init_wait"
  /\ initWg = 0
  /\ pcStart' = "init_check"
  /\ startI' = 1
  /\ allInitSuccess' = TRUE
  /\ UNCHANGED <<mainVars, pw, rev, processes, cmd, initDone, wg, initWg, startErr, pcRun,
                 healthVars>>
  /\ Track

\* main.go: proc.mu.Lock(); if !proc.Success { allInitSuccess = false }
StartInitCheck ==
  /\ rev = "main"
  /\ pcStart = "init_check"
  /\ LET i == initTasks[startI] IN
       /\ processes[i].mu = "free"
       /\ processes' = [processes EXCEPT ![i].mu = "Start"]
       /\ allInitSuccess' = (allInitSuccess /\ processes[i].Success)
  /\ pcStart' = "init_check_unlock"
  /\ UNCHANGED <<mainVars, pw, rev, cmd, initDone, wg, initWg, startI, startErr, pcRun,
                 healthVars>>
  /\ Track

\* main.go: proc.mu.Unlock() and the loop's next round.
StartInitCheckUnlock ==
  /\ rev = "main"
  /\ pcStart = "init_check_unlock"
  /\ processes' = [processes EXCEPT ![initTasks[startI]].mu = "free"]
  /\ IF startI < Len(initTasks)
     THEN /\ startI' = startI + 1
          /\ pcStart' = "init_check"
     ELSE /\ startI' = 1
          /\ pcStart' = "init_eval"
  /\ UNCHANGED <<mainVars, pw, rev, cmd, initDone, wg, initWg, allInitSuccess, startErr,
                 pcRun, healthVars>>
  /\ Track

\* Start that goes on to the services whatever allInitSuccess is.
StartInitEvalIgnored ==
  /\ rev = "main"
  /\ pcStart = "init_eval"
  /\ pcStart' = "close"
  /\ UNCHANGED <<mainVars, pw, rev, processes, cmd, initDone, wg, initWg, startI,
                 allInitSuccess, startErr, pcRun, healthVars>>
  /\ Track

\* Start that closes the gate on an init failure and goes on instead of
\* returning.
StartInitEvalNoReturn ==
  /\ rev = "main"
  /\ pcStart = "init_eval"
  /\ IF ~allInitSuccess
     THEN /\ initDone' = TRUE
          /\ pcStart' = "close"
          /\ UNCHANGED startErr
     ELSE /\ pcStart' = "close"
          /\ UNCHANGED <<initDone, startErr>>
  /\ UNCHANGED <<mainVars, pw, rev, processes, cmd, wg, initWg, startI, allInitSuccess,
                 pcRun, healthVars>>
  /\ Track

\* main.go: if !allInitSuccess { close(m.initDone); return error }
StartInitEval ==
  /\ rev = "main"
  /\ pcStart = "init_eval"
  /\ IF ~allInitSuccess
     THEN /\ initDone' = TRUE
          /\ pcStart' = "returned"
          /\ startErr' = "error"
     ELSE /\ pcStart' = "close"
          /\ UNCHANGED <<initDone, startErr>>
  /\ UNCHANGED <<mainVars, pw, rev, processes, cmd, wg, initWg, startI, allInitSuccess,
                 pcRun, healthVars>>
  /\ Track

\* manager.go: m.runInitTask(proc), a synchronous call.
StartRunInit ==
  /\ rev = "manager"
  /\ pcStart = "init_run"
  /\ pcRun' = [pcRun EXCEPT ![initTasks[startI]] = "start"]
  /\ pcStart' = "init_running"
  /\ UNCHANGED <<mainVars, pw, rev, processes, cmd, initDone, wg, initWg, startI,
                 allInitSuccess, startErr, healthVars>>
  /\ Track

\* Start that tests proc.Success without waiting for runInitTask to return.
StartInitLockEarly ==
  /\ rev = "manager"
  /\ pcStart = "init_running"
  /\ LET i == initTasks[startI] IN
       /\ processes[i].mu = "free"
       /\ processes' = [processes EXCEPT ![i].mu = "Start"]
       /\ pcStart' = IF ~processes[i].Success THEN "init_failed"
                     ELSE "init_unlock"
  /\ UNCHANGED <<mainVars, pw, rev, cmd, initDone, wg, initWg, startI, allInitSuccess,
                 startErr, pcRun, healthVars>>
  /\ Track

\* manager.go: runInitTask has returned; proc.mu.Lock(); if !proc.Success
StartInitLock ==
  /\ rev = "manager"
  /\ pcStart = "init_running"
  /\ LET i == initTasks[startI] IN
       /\ pcRun[i] = "done"
       /\ processes[i].mu = "free"
       /\ processes' = [processes EXCEPT ![i].mu = "Start"]
       /\ pcStart' = IF ~processes[i].Success THEN "init_failed"
                     ELSE "init_unlock"
  /\ UNCHANGED <<mainVars, pw, rev, cmd, initDone, wg, initWg, startI, allInitSuccess,
                 startErr, pcRun, healthVars>>
  /\ Track

\* Start that returns nil when it has found a failed init task.
StartInitFailedNil ==
  /\ rev = "manager"
  /\ pcStart = "init_failed"
  /\ initDone' = TRUE
  /\ pcStart' = "returned"
  /\ startErr' = "nil"
  /\ UNCHANGED <<mainVars, pw, rev, processes, cmd, wg, initWg, startI, allInitSuccess,
                 pcRun, healthVars>>
  /\ Track

\* manager.go: close(m.initDone); return fmt.Errorf(...) with proc.mu held.
StartInitFailed ==
  /\ rev = "manager"
  /\ pcStart = "init_failed"
  /\ initDone' = TRUE
  /\ pcStart' = "returned"
  /\ startErr' = "error"
  /\ UNCHANGED <<mainVars, pw, rev, processes, cmd, wg, initWg, startI, allInitSuccess,
                 pcRun, healthVars>>
  /\ Track

\* manager.go: proc.mu.Unlock() and the loop's next round.
StartInitUnlock ==
  /\ rev = "manager"
  /\ pcStart = "init_unlock"
  /\ processes' = [processes EXCEPT ![initTasks[startI]].mu = "free"]
  /\ IF startI < Len(initTasks)
     THEN /\ startI' = startI + 1
          /\ pcStart' = "init_run"
     ELSE /\ startI' = 1
          /\ pcStart' = "close"
  /\ UNCHANGED <<mainVars, pw, rev, cmd, initDone, wg, initWg, allInitSuccess, startErr,
                 pcRun, healthVars>>
  /\ Track

\* Start that closes the gate and returns nil without the service loop.
StartCloseOnly ==
  /\ pcStart = "close"
  /\ initDone' = TRUE
  /\ startI' = 1
  /\ pcStart' = "returned"
  /\ startErr' = "nil"
  /\ UNCHANGED <<mainVars, pw, rev, processes, cmd, wg, initWg, allInitSuccess, pcRun,
                 healthVars>>
  /\ Track

\* close(m.initDone) on the path without an init failure.
StartClose ==
  /\ pcStart = "close"
  /\ initDone' = TRUE
  /\ startI' = 1
  /\ IF Len(serviceTasks) > 0
     THEN /\ pcStart' = "service_spawn"
          /\ UNCHANGED startErr
     ELSE /\ pcStart' = "returned"
          /\ startErr' = "nil"
  /\ UNCHANGED <<mainVars, pw, rev, processes, cmd, wg, initWg, allInitSuccess, pcRun,
                 healthVars>>
  /\ Track

\* Start that spawns the service runners without m.wg.Add(1).
StartSpawnServiceNoAdd ==
  /\ pcStart = "service_spawn"
  /\ pcRun' = [pcRun EXCEPT ![serviceTasks[startI]] = "start"]
  /\ IF startI < Len(serviceTasks)
     THEN /\ startI' = startI + 1
          /\ pcStart' = "service_spawn"
          /\ UNCHANGED startErr
     ELSE /\ startI' = 1
          /\ pcStart' = "returned"
          /\ startErr' = "nil"
  /\ UNCHANGED <<mainVars, pw, rev, processes, cmd, initDone, wg, initWg,
                 allInitSuccess, healthVars>>
  /\ Track

\* Start that marks a service alive itself when it spawns the runner.
StartSpawnServiceSetAlive ==
  /\ pcStart = "service_spawn"
  /\ wg' = wg + 1
  /\ pcRun' = [pcRun EXCEPT ![serviceTasks[startI]] = "start"]
  /\ processes' = [processes EXCEPT ![serviceTasks[startI]].Alive = TRUE]
  /\ IF startI < Len(serviceTasks)
     THEN /\ startI' = startI + 1
          /\ pcStart' = "service_spawn"
          /\ UNCHANGED startErr
     ELSE /\ startI' = 1
          /\ pcStart' = "returned"
          /\ startErr' = "nil"
  /\ UNCHANGED <<mainVars, pw, rev, cmd, initDone, initWg, allInitSuccess,
                 healthVars>>
  /\ Track

\* m.wg.Add(1); go m.runServiceTask(proc); return nil after the last one.
StartSpawnService ==
  /\ pcStart = "service_spawn"
  /\ wg' = wg + 1
  /\ pcRun' = [pcRun EXCEPT ![serviceTasks[startI]] = "start"]
  /\ IF startI < Len(serviceTasks)
     THEN /\ startI' = startI + 1
          /\ pcStart' = "service_spawn"
          /\ UNCHANGED startErr
     ELSE /\ startI' = 1
          /\ pcStart' = "returned"
          /\ startErr' = "nil"
  /\ UNCHANGED <<mainVars, pw, rev, processes, cmd, initDone, initWg, allInitSuccess,
                 healthVars>>
  /\ Track

Start ==
  \/ StartCall
  \/ StartSpawnInit
  \/ StartInitWait
  \/ StartInitCheck
  \/ StartInitCheckUnlock
  \/ StartInitEval
  \/ StartRunInit
  \/ StartInitLock
  \/ StartInitFailed
  \/ StartInitUnlock
  \/ StartClose
  \/ StartSpawnService

-----------------------------------------------------------------------------
\* Runners

\* wg.Done() deferred by a runner: initWg in main.go's runInitTask (the
\* manager.go one takes no wait group), m.wg in runServiceTask.
InitDone(n) == IF rev = "main" THEN n - 1 ELSE n

\* proc.Cmd.Start() of a runner, and the launch-failure branch of
\* runServiceTask (proc.Alive = false; return).
CmdStart(i) ==
  /\ pcRun[i] = "start"
  /\ \E ok \in BOOLEAN :
       IF ok
       THEN /\ cmd' = [cmd EXCEPT ![i].state = "running"]
            /\ pcRun' = [pcRun EXCEPT ![i] = "setalive"]
            /\ UNCHANGED <<processes, wg>>
       ELSE /\ cmd' = [cmd EXCEPT ![i].state = "startfailed"]
            /\ IF IsInit(i)
               THEN /\ pcRun' = [pcRun EXCEPT ![i] = "startfailed"]
                    /\ UNCHANGED <<processes, wg>>
               ELSE /\ processes' = [processes EXCEPT ![i].Alive = FALSE]
                    /\ pcRun' = [pcRun EXCEPT ![i] = "done"]
                    /\ wg' = wg - 1
  /\ UNCHANGED <<mainVars, pw, rev, initDone, initWg, startVars, healthVars>>
  /\ Track

\* A runner that takes the lock after a failed launch but records nothing.
RunInitStartFailedNoRecord(i) ==
  /\ pcRun[i] = "startfailed"
  /\ processes[i].mu = "free"
  /\ processes' = [processes EXCEPT ![i].mu = "Runner"]
  /\ pcRun' = [pcRun EXCEPT ![i] = "failunlock"]
  /\ UNCHANGED <<mainVars, pw, rev, cmd, initDone, wg, initWg, startVars, healthVars>>
  /\ Track

\* runInitTask, launch failed: Lock; Success = false; ExitCode = -1
RunInitStartFailed(i) ==
  /\ pcRun[i] = "startfailed"
  /\ processes[i].mu = "free"
  /\ processes' = [processes EXCEPT ![i].mu = "Runner",
                                    ![i].Success = FALSE,
                                    ![i].ExitCode = -1]
  /\ pcRun' = [pcRun EXCEPT ![i] = "failunlock"]
  /\ UNCHANGED <<mainVars, pw, rev, cmd, initDone, wg, initWg, startVars, healthVars>>
  /\ Track

\* runInitTask, launch failed: Unlock; return
RunInitFailUnlock(i) ==
  /\ pcRun[i] = "failunlock"
  /\ processes' = [processes EXCEPT ![i].mu = "free"]
  /\ pcRun' = [pcRun EXCEPT ![i] = "done"]
  /\ initWg' = InitDone(initWg)
  /\ UNCHANGED <<mainVars, pw, rev, cmd, initDone, wg, startVars, healthVars>>
  /\ Track

\* proc.Alive = true after a successful launch (both runners, no lock).
SetAlive(i) ==
  /\ pcRun[i] = "setalive"
  /\ processes' = [processes EXCEPT ![i].Alive = TRUE]
  /\ pcRun' = [pcRun EXCEPT ![i] = "wait"]
  /\ UNCHANGED <<mainVars, pw, rev, cmd, initDone, wg, initWg, startVars, healthVars>>
  /\ Track

\* The three branches of runInitTask after proc.Cmd.Wait(): what is stored
\* in ExitCode and Success for a child that ended as c.
\* A runner that stores -1 for every failed wait.
InitExitCodeFlat(c) == IF WaitError(c) = "nil" THEN 0 ELSE -1

InitExitCode(c) ==
  IF WaitError(c) = "nil" THEN 0
  ELSE IF WaitError(c) = "ExitError" THEN ExitErrorCode(c)
  ELSE -1

InitSuccess(c) ==
  IF WaitError(c) = "nil" THEN TRUE
  ELSE IF WaitError(c) = "ExitError" THEN InitExitCode(c) = 0
  ELSE FALSE

\* runInitTask: proc.Cmd.Wait() returns; Lock; ExitCode, Success recorded.
RunInitWait(i) ==
  /\ pcRun[i] = "wait"
  /\ IsInit(i)
  /\ processes[i].mu = "free"
  /\ \E c \in WaitOutcomes :
       /\ cmd' = [cmd EXCEPT ![i] = c]
       /\ processes' = [processes EXCEPT ![i].mu = "Runner",
                                         ![i].ExitCode = InitExitCode(c),
                                         ![i].Success = InitSuccess(c)]
  /\ pcRun' = [pcRun EXCEPT ![i] = "unlock"]
  /\ UNCHANGED <<mainVars, pw, rev, initDone, wg, initWg, startVars, healthVars>>
  /\ Track

\* runInitTask: Unlock after the outcome is recorded.
RunInitUnlock(i) ==
  /\ pcRun[i] = "unlock"
  /\ processes' = [processes EXCEPT ![i].mu = "free"]
  /\ pcRun' = [pcRun EXCEPT ![i] = "clear"]
  /\ UNCHANGED <<mainVars, pw, rev, cmd, initDone, wg, initWg, startVars, healthVars>>
  /\ Track

\* runInitTask: proc.Alive = false; return
RunInitClear(i) ==
  /\ pcRun[i] = "clear"
  /\ processes' = [processes EXCEPT ![i].Alive = FALSE]
  /\ pcRun' = [pcRun EXCEPT ![i] = "done"]
  /\ initWg' = InitDone(initWg)
  /\ UNCHANGED <<mainVars, pw, rev, cmd, initDone, wg, startVars, healthVars>>
  /\ Track

\* What runServiceTask stores in ExitCode for a child that ended as c, given
\* the value old held before: the runner only logs, the field is not written.
ServiceExitCode(c, old) == old

\* A service runner that launches the child again when it has ended.
RunServiceExitRestart(i) ==
  /\ pcRun[i] = "wait"
  /\ IsService(i)
  /\ \E c \in WaitOutcomes :
       /\ cmd' = [cmd EXCEPT ![i] = c]
       /\ processes' = [processes EXCEPT ![i].Alive = FALSE]
  /\ pcRun' = [pcRun EXCEPT ![i] = "start"]
  /\ UNCHANGED <<mainVars, pw, rev, initDone, wg, initWg, startVars, healthVars>>
  /\ Track

\* runServiceTask: proc.Cmd.Wait() returns; proc.Alive = false; return
RunServiceExit(i) ==
  /\ pcRun[i] = "wait"
  /\ IsService(i)
  /\ \E c \in WaitOutcomes :
       /\ cmd' = [cmd EXCEPT ![i] = c]
       /\ processes' =
            [processes EXCEPT ![i].Alive = FALSE,
                              ![i].ExitCode =
                                 ServiceExitCode(c, processes[i].ExitCode)]
  /\ pcRun' = [pcRun EXCEPT ![i] = "done"]
  /\ wg' = wg - 1
  /\ UNCHANGED <<mainVars, pw, rev, initDone, initWg, startVars, healthVars>>
  /\ Track

runInitTask(i) ==
  \/ RunInitStartFailed(i)
  \/ RunInitFailUnlock(i)
  \/ RunInitWait(i)
  \/ RunInitUnlock(i)
  \/ RunInitClear(i)

runServiceTask(i) == RunServiceExit(i)

-----------------------------------------------------------------------------
\* Manager.HealthCheckHandler

Header == <<"Health Check:">>
NoProcesses == <<"No processes configured">>
InProgress == <<"Initialization in progress...">>

\* The status word of a service line and of an init line.
ServiceStatus(p) == IF ~p.Alive THEN "Unhealthy" ELSE "Healthy"
InitStatus(p) == IF ~p.Success THEN "Failed" ELSE "Completed"

\* One report line: "<name>: <status>" in main.go,
\* "<name>: <status> (ExitCode=<n>)" in manager.go.
Line(p, status) ==
  IF rev = "main" THEN <<p.Name, status>> ELSE <<p.Name, status, p.ExitCode>>

\* w.WriteHeader(...) at the end of the handler.
StatusCode(healthy) ==
  IF healthy THEN StatusOK ELSE StatusInternalServerError

\* A handler that tests the gate before the empty task set.
HealthCallGateFirst ==
  /\ pcHealth = "idle"
  /\ IF ~initDone
     THEN /\ w' = [code |-> StatusCode(FALSE),
                   body |-> <<Header, InProgress>>]
          /\ pcHealth' = "answered"
          /\ UNCHANGED <<healthI, response, allHealthy>>
     ELSE IF Len(processes) = 0
     THEN /\ w' = [code |-> StatusOK, body |-> <<Header, NoProcesses>>]
          /\ pcHealth' = "answered"
          /\ UNCHANGED <<healthI, response, allHealthy>>
     ELSE /\ pcHealth' = "loop"
          /\ healthI' = 1
          /\ response' = <<Header>>
          /\ allHealthy' = TRUE
          /\ UNCHANGED w
  /\ UNCHANGED <<mainVars, pw, rev, processes, cmd, initDone, wg, initWg, startVars, pcRun>>
  /\ TrackQuery

\* A handler without the select on m.initDone.
HealthCallNoSelect ==
  /\ pcHealth = "idle"
  /\ IF Len(processes) = 0
     THEN /\ w' = [code |-> StatusOK, body |-> <<Header, NoProcesses>>]
          /\ pcHealth' = "answered"
          /\ UNCHANGED <<healthI, response, allHealthy>>
     ELSE /\ pcHealth' = "loop"
          /\ healthI' = 1
          /\ response' = <<Header>>
          /\ allHealthy' = TRUE
          /\ UNCHANGED w
  /\ UNCHANGED <<mainVars, pw, rev, processes, cmd, initDone, wg, initWg, startVars, pcRun>>
  /\ TrackQuery

\* Entry of the handler: the empty task set, then the non-blocking select on
\* m.initDone; both short paths answer at once.
HealthCall ==
  /\ pcHealth = "idle"
  /\ IF Len(processes) = 0
     THEN /\ w' = [code |-> StatusOK, body |-> <<Header, NoProcesses>>]
          /\ pcHealth' = "answered"
          /\ UNCHANGED <<healthI, response, allHealthy>>
     ELSE IF ~initDone
     THEN /\ w' = [code |-> StatusCode(FALSE),
                   body |-> <<Header, InProgress>>]
          /\ pcHealth' = "answered"
          /\ UNCHANGED <<healthI, response, allHealthy>>
     ELSE /\ pcHealth' = "loop"
          /\ healthI' = 1
          /\ response' = <<Header>>
          /\ allHealthy' = TRUE
          /\ UNCHANGED w
  /\ UNCHANGED <<mainVars, pw, rev, processes, cmd, initDone, wg, initWg, startVars, pcRun>>
  /\ TrackQuery

\* A handler that takes a service whose child was not launched yet for
\* healthy.
HealthServiceLenient ==
  /\ pcHealth = "loop"
  /\ healthI <= Len(processes)
  /\ IsService(healthI)
  /\ LET p == processes[healthI]
         up == p.Alive \/ cmd[healthI].state = "new" IN
       /\ response' = Append(response,
                              Line(p, IF up THEN "Healthy" ELSE "Unhealthy"))
       /\ allHealthy' = (allHealthy /\ up)
  /\ healthI' = healthI + 1
  /\ UNCHANGED <<mainVars, pw, rev, processes, cmd, initDone, wg, initWg, startVars, pcRun,
                 pcHealth, w>>
  /\ Track

\* Loop body for a service task: proc.Alive (and proc.ExitCode) read
\* without the lock.
HealthService ==
  /\ pcHealth = "loop"
  /\ healthI <= Len(processes)
  /\ IsService(healthI)
  /\ LET p == processes[healthI] IN
       /\ response' = Append(response, Line(p, ServiceStatus(p)))
       /\ allHealthy' = (allHealthy /\ p.Alive)
  /\ healthI' = healthI + 1
  /\ UNCHANGED <<mainVars, pw, rev, processes, cmd, initDone, wg, initWg, startVars, pcRun,
                 pcHealth, w>>
  /\ Track

\* Loop body for an init task: proc.mu.Lock(), then the line is rendered.
HealthInitLock ==
  /\ pcHealth = "loop"
  /\ healthI <= Len(processes)
  /\ IsInit(healthI)
  /\ processes[healthI].mu = "free"
  /\ LET p == processes[healthI] IN
       /\ response' = Append(response, Line(p, InitStatus(p)))
       /\ allHealthy' = (allHealthy /\ p.Success)
  /\ processes' = [processes EXCEPT ![healthI].mu = "Health"]
  /\ pcHealth' = "unlock"
  /\ UNCHANGED <<mainVars, pw, rev, cmd, initDone, wg, initWg, startVars, pcRun, healthI, w>>
  /\ Track

\* A handler whose loop steps over the task that follows an init task.
HealthInitUnlockSkip ==
  /\ pcHealth = "unlock"
  /\ processes' = [processes EXCEPT ![healthI].mu = "free"]
  /\ healthI' = healthI + 2
  /\ pcHealth' = "loop"
  /\ UNCHANGED <<mainVars, pw, rev, cmd, initDone, wg, initWg, startVars, pcRun, response,
                 allHealthy, w>>
  /\ Track

\* A handler that goes on to the next task without proc.mu.Unlock().
HealthInitUnlockKeep ==
  /\ pcHealth = "unlock"
  /\ healthI' = healthI + 1
  /\ pcHealth' = "loop"
  /\ UNCHANGED <<mainVars, pw, rev, processes, cmd, initDone, wg, initWg, startVars,
                 pcRun, response, allHealthy, w>>
  /\ Track

\* proc.mu.Unlock() of the init branch.
HealthInitUnlock ==
  /\ pcHealth = "unlock"
  /\ processes' = [processes EXCEPT ![healthI].mu = "free"]
  /\ healthI' = healthI + 1
  /\ pcHealth' = "loop"
  /\ UNCHANGED <<mainVars, pw, rev, cmd, initDone, wg, initWg, startVars, pcRun, response,
                 allHealthy, w>>
  /\ Track

\* A handler whose response buffer outlives the query: every answer is
\* written after the lines of the answer before it.
HealthWriteAppend ==
  /\ pcHealth = "loop"
  /\ healthI > Len(processes)
  /\ w' = [code |-> StatusCode(allHealthy), body |-> w.body \o response]
  /\ pcHealth' = "answered"
  /\ healthI' = 0
  /\ response' = <<>>
  /\ allHealthy' = TRUE
  /\ UNCHANGED <<mainVars, pw, rev, processes, cmd, initDone, wg, initWg,
                 startVars, pcRun>>
  /\ Track

\* After the loop: WriteHeader by allHealthy, then the body is written.
HealthWrite ==
  /\ pcHealth = "loop"
  /\ healthI > Len(processes)
  /\ w' = [code |-> StatusCode(allHealthy), body |-> response]
  /\ pcHealth' = "answered"
  /\ healthI' = 0
  /\ response' = <<>>
  /\ allHealthy' = TRUE
  /\ UNCHANGED <<mainVars, pw, rev, processes, cmd, initDone, wg, initWg, startVars, pcRun>>
  /\ Track

\* The handler returns; the answer stays with the client.
HealthReturn ==
  /\ pcHealth = "answered"
  /\ pcHealth' = "idle"
  /\ UNCHANGED <<mainVars, pw, rev, processes, cmd, initDone, wg, initWg, startVars, pcRun,
                 healthI, response, allHealthy, w>>
  /\ Track

HealthCheckHandler ==
  \/ HealthCall
  \/ HealthService
  \/ HealthInitLock
  \/ HealthInitUnlock
  \/ HealthWrite
  \/ HealthReturn

-----------------------------------------------------------------------------
\* main: the flags and the argument loops

\* A flag value is a string, kept as the sequence of its characters.
Colon == ":"
Space == " "

\* The Go string of a sequence of characters.
RECURSIVE Join(_)
Join(s) == IF s = <<>> THEN "" ELSE Head(s) \o Join(Tail(s))

\* strings.SplitN(cmdStr, ":", 2): cut at the first colon, wherever it is.
SplitN(s) ==
  IF \E k \in 1..Len(s) : s[k] = Colon
  THEN LET k == CHOOSE k \in 1..Len(s) :
                  s[k] = Colon /\ \A j \in 1..(k - 1) : s[j] # Colon
       IN <<SubSeq(s, 1, k - 1), SubSeq(s, k + 1, Len(s))>>
  ELSE <<s>>

\* strings.TrimSpace
RECURSIVE TrimLeft(_)
TrimLeft(s) ==
  IF s # <<>> /\ Head(s) = Space THEN TrimLeft(Tail(s)) ELSE s

RECURSIVE TrimRight(_)
TrimRight(s) ==
  IF s # <<>> /\ s[Len(s)] = Space
  THEN TrimRight(SubSeq(s, 1, Len(s) - 1))
  ELSE s

TrimSpace(s) == TrimRight(TrimLeft(s))

\* The alias and the command main() derives from the entry cmdStr at index i
\* (from 0) of the -i list or of the -c list.
ArgAlias(cmdStr, taskType, i) ==
  LET parts == SplitN(cmdStr) IN
    IF Len(parts) = 2 THEN Join(TrimSpace(parts[1]))
    ELSE AutoAlias(taskType, i)

ArgCommand(cmdStr) ==
  LET parts == SplitN(cmdStr) IN
    IF Len(parts) = 2 THEN Join(TrimSpace(parts[2]))
    ELSE Join(TrimSpace(parts[1]))

\* Flag values that are explored: an entry without a colon, the empty entry,
\* entries with an alias, with a colon after a space, and with an alias that
\* looks like a generated one.
PlainEntries == {<<"x">>}

Entries ==
  { <<>>,
    <<"x">>,
    <<"a", ":", "x">>,
    <<"a", ":", " ", "x">>,
    <<"x", " ", "a", ":", "b">>,
    <<"a", "p", "p", "2", ":", "x">> }

\* The lists of at most n entries of E.
Lists(E, n) == UNION {[1..k -> E] : k \in 0..n}

\* flag.Parse(), and log.Fatal("No commands provided.") for two empty lists.
FlagParse(E) ==
  /\ pcMain = "flags"
  /\ \E ic \in Lists(E, MaxTasks), cc \in Lists(E, MaxTasks) :
       /\ Len(ic) + Len(cc) <= MaxTasks
       /\ initCommands' = ic
       /\ commands' = cc
       /\ IF Len(cc) = 0 /\ Len(ic) = 0
          THEN pcMain' = "fatal" /\ exit' = "fatal"
          ELSE pcMain' = "init_args" /\ exit' = exit
  /\ \E addr \in {defaultListenAddr, ""} : listenAddr' = addr
  /\ argI' = 0
  /\ UNCHANGED <<http, pcSig, cancelled>>
  /\ UNCHANGED <<pw, rev, processes, cmd, initDone, wg, initWg, startVars, pcRun,
                 healthVars>>
  /\ Track

\* One round of an argument loop of main(): the entry at index argI of list
\* is split and added, an empty entry is passed over.
ArgRound(list, taskType) ==
  /\ argI < Len(list)
  /\ LET cmdStr == list[argI + 1] IN
       IF cmdStr # <<>>
       THEN AddProcess(ArgAlias(cmdStr, taskType, argI), ArgCommand(cmdStr),
                       taskType)
       ELSE /\ UNCHANGED <<pw, rev, processes, cmd, initDone, wg, initWg,
                           startVars, pcRun, healthVars>>
            /\ Track
  /\ argI' = argI + 1
  /\ UNCHANGED <<listenAddr, initCommands, commands, pcMain, http, pcSig,
                 cancelled, exit>>

\* The end of an argument loop.
ArgDone(list, to) ==
  /\ argI >= Len(list)
  /\ argI' = 0
  /\ pcMain' = to
  /\ UNCHANGED <<listenAddr, initCommands, commands, http, pcSig, cancelled,
                 exit>>
  /\ UNCHANGED <<pw, rev, processes, cmd, initDone, wg, initWg, startVars, pcRun,
                 healthVars>>
  /\ Track

MainInitArg == pcMain = "init_args" /\ ArgRound(initCommands, TaskTypeInit)
MainInitArgsDone == pcMain = "init_args" /\ ArgDone(initCommands, "service_args")
MainServiceArg == pcMain = "service_args" /\ ArgRound(commands, TaskTypeService)
MainServiceArgsDone == pcMain = "service_args" /\ ArgDone(commands, "start")

-----------------------------------------------------------------------------
\* main: the health server, the signal goroutine, Wait and Shutdown

\* After mgr.Start() has returned, with or without an error:
\* if listenAddr != "" { go RunHTTPServer(listenAddr, mgr) }
MainServe ==
  /\ pcMain = "start"
  /\ pcStart = "returned"
  /\ http' = IF listenAddr # "" THEN "starting" ELSE "off"
  /\ pcMain' = "notify"
  /\ UNCHANGED <<listenAddr, initCommands, commands, argI, pcSig, cancelled,
                 exit>>
  /\ UNCHANGED <<pw, rev, processes, cmd, initDone, wg, initWg, startVars, pcRun,
                 healthVars>>
  /\ Track

\* A health server that only logs the error of http.ListenAndServe.
RunHTTPServerLogOnly ==
  /\ http = "starting"
  /\ \E bound \in BOOLEAN :
       http' = IF bound THEN "serving" ELSE "bindfailed"
  /\ UNCHANGED <<listenAddr, initCommands, commands, argI, pcMain, pcSig,
                 cancelled, exit>>
  /\ UNCHANGED <<pw, rev, processes, cmd, initDone, wg, initWg, startVars, pcRun,
                 healthVars>>
  /\ Track

\* RunHTTPServer: http.ListenAndServe binds and serves, or returns an error
\* and log.Fatalf ends the process.
RunHTTPServer ==
  /\ http = "starting"
  /\ \E bound \in BOOLEAN :
       IF bound
       THEN http' = "serving" /\ exit' = exit
       ELSE http' = "bindfailed" /\ exit' = "fatal"
  /\ UNCHANGED <<listenAddr, initCommands, commands, argI, pcMain, pcSig,
                 cancelled>>
  /\ UNCHANGED <<pw, rev, processes, cmd, initDone, wg, initWg, startVars, pcRun,
                 healthVars>>
  /\ Track

\* signal.Notify(sigs, SIGINT, SIGTERM); go func() { <-sigs ... }()
MainNotify ==
  /\ pcMain = "notify"
  /\ pcSig' = "waiting"
  /\ pcMain' = "wait"
  /\ UNCHANGED <<listenAddr, initCommands, commands, argI, http, cancelled,
                 exit>>
  /\ UNCHANGED <<pw, rev, processes, cmd, initDone, wg, initWg, startVars, pcRun,
                 healthVars>>
  /\ Track

\* Manager.Wait as main() calls it: m.wg.Wait() returns at counter zero.
Wait ==
  /\ pcMain = "wait"
  /\ wg = 0
  /\ pcMain' = "waited"
  /\ UNCHANGED <<listenAddr, initCommands, commands, argI, http, pcSig,
                 cancelled, exit>>
  /\ UNCHANGED <<pw, rev, processes, cmd, initDone, wg, initWg, startVars, pcRun,
                 healthVars>>
  /\ Track

\* main() returns after mgr.Wait(): the process ends with status 0.
MainReturn ==
  /\ pcMain = "waited"
  /\ pcMain' = "returned"
  /\ exit' = "returned"
  /\ UNCHANGED <<listenAddr, initCommands, commands, argI, http, pcSig,
                 cancelled>>
  /\ UNCHANGED <<pw, rev, processes, cmd, initDone, wg, initWg, startVars, pcRun,
                 healthVars>>
  /\ Track

\* <-sigs: a SIGINT or SIGTERM is delivered to the registered channel.
SignalReceived ==
  /\ pcSig = "waiting"
  /\ pcSig' = "shutdown"
  /\ UNCHANGED <<listenAddr, initCommands, commands, argI, pcMain, http,
                 cancelled, exit>>
  /\ UNCHANGED <<pw, rev, processes, cmd, initDone, wg, initWg, startVars, pcRun,
                 healthVars>>
  /\ Track

\* A Shutdown whose m.cancel() ends the children of the running services, as
\* it would had they been launched with exec.CommandContext(m.ctx, ...).
ShutdownCancelKill ==
  /\ pcSig = "shutdown"
  /\ cancelled' = TRUE
  /\ pcSig' = "join"
  /\ cmd' = [j \in DOMAIN cmd |->
               IF cmd[j].state = "running"
               THEN [state |-> "signaled", status |-> -1] ELSE cmd[j]]
  /\ UNCHANGED <<listenAddr, initCommands, commands, argI, pcMain, http,
                 exit>>
  /\ UNCHANGED <<pw, rev, processes, initDone, wg, initWg, startVars, pcRun,
                 healthVars>>
  /\ Track

\* Manager.Shutdown: m.cancel()
ShutdownCancel ==
  /\ pcSig = "shutdown"
  /\ cancelled' = TRUE
  /\ pcSig' = "join"
  /\ UNCHANGED <<listenAddr, initCommands, commands, argI, pcMain, http,
                 exit>>
  /\ UNCHANGED <<pw, rev, processes, cmd, initDone, wg, initWg, startVars, pcRun,
                 healthVars>>
  /\ Track

\* A Shutdown that returns after m.cancel() without m.wg.Wait().
ShutdownNoJoin ==
  /\ pcSig = "join"
  /\ pcSig' = "returned"
  /\ UNCHANGED <<listenAddr, initCommands, commands, argI, pcMain, http,
                 cancelled, exit>>
  /\ UNCHANGED <<pw, rev, processes, cmd, initDone, wg, initWg, startVars, pcRun,
                 healthVars>>
  /\ Track

\* Manager.Shutdown: m.wg.Wait() returns at counter zero, Shutdown returns.
ShutdownJoin ==
  /\ pcSig = "join"
  /\ wg = 0
  /\ pcSig' = "returned"
  /\ UNCHANGED <<listenAddr, initCommands, commands, argI, pcMain, http,
                 cancelled, exit>>
  /\ UNCHANGED <<pw, rev, processes, cmd, initDone, wg, initWg, startVars, pcRun,
                 healthVars>>
  /\ Track

Shutdown == ShutdownCancel \/ ShutdownJoin

\* os.Exit(0) of the signal goroutine, after Shutdown has returned.
SignalExit ==
  /\ pcSig = "returned"
  /\ pcSig' = "exited"
  /\ exit' = "signal"
  /\ UNCHANGED <<listenAddr, initCommands, commands, argI, pcMain, http,
                 cancelled>>
  /\ UNCHANGED <<pw, rev, processes, cmd, initDone, wg, initWg, startVars, pcRun,
                 healthVars>>
  /\ Track

-----------------------------------------------------------------------------
\* The program

Next ==
  \/ \E taskType \in TaskTypes :
       /\ AddProcess(AutoAlias(taskType,
                                Len(OfType(taskType, Len(processes)))),
                     "true", taskType)
       /\ UNCHANGED mainVars
  \/ Start
  \/ \E i \in Tasks : CmdStart(i)
  \/ \E i \in Tasks : SetAlive(i)
  \/ \E i \in Tasks : runInitTask(i)
  \/ \E i \in Tasks : runServiceTask(i)
  \/ HealthCheckHandler

Spec == Init /\ [][Next]_vars

\* Steps the Go scheduler runs whenever they stay possible: every step of
\* Start and of the runners except the return of cmd.Wait(), which needs the
\* child to exit, and every step of a health query that has been received.
Scheduled ==
  \/ Start
  \/ \E i \in Tasks : CmdStart(i)
  \/ \E i \in Tasks : SetAlive(i)
  \/ \E i \in Tasks : RunInitStartFailed(i)
  \/ \E i \in Tasks : RunInitFailUnlock(i)
  \/ \E i \in Tasks : RunInitUnlock(i)
  \/ \E i \in Tasks : RunInitClear(i)

Serving ==
  \/ HealthService
  \/ HealthInitLock
  \/ HealthInitUnlock
  \/ HealthWrite
  \/ HealthReturn

FairSpec == Spec /\ WF_vars(Scheduled) /\ WF_vars(Serving)

\* The supervisor process has not ended; when it has, none of its goroutines
\* takes a step.
Running == exit = "running"

\* The program as main() drives it: flags, argument loops, Start, the health
\* server (queries arrive only while it serves), the signal goroutine, Wait.
MainNext ==
  \/ Running /\ FlagParse(PlainEntries)
  \/ Running /\ MainInitArg
  \/ Running /\ MainInitArgsDone
  \/ Running /\ MainServiceArg
  \/ Running /\ MainServiceArgsDone
  \/ Running /\ pcMain = "start" /\ StartCall
  \/ Running /\ StartSpawnInit
  \/ Running /\ StartInitWait
  \/ Running /\ StartInitCheck
  \/ Running /\ StartInitCheckUnlock
  \/ Running /\ StartInitEval
  \/ Running /\ StartRunInit
  \/ Running /\ StartInitLock
  \/ Running /\ StartInitFailed
  \/ Running /\ StartInitUnlock
  \/ Running /\ StartClose
  \/ Running /\ StartSpawnService
  \/ \E i \in Tasks : Running /\ CmdStart(i)
  \/ \E i \in Tasks : Running /\ SetAlive(i)
  \/ \E i \in Tasks : Running /\ RunInitStartFailed(i)
  \/ \E i \in Tasks : Running /\ RunInitFailUnlock(i)
  \/ \E i \in Tasks : Running /\ RunInitWait(i)
  \/ \E i \in Tasks : Running /\ RunInitUnlock(i)
  \/ \E i \in Tasks : Running /\ RunInitClear(i)
  \/ \E i \in Tasks : Running /\ RunServiceExit(i)
  \/ Running /\ MainServe
  \/ Running /\ RunHTTPServer
  \/ Running /\ MainNotify
  \/ Running /\ Wait
  \/ Running /\ MainReturn
  \/ Running /\ SignalReceived
  \/ Running /\ ShutdownCancel
  \/ Running /\ ShutdownJoin
  \/ Running /\ SignalExit
  \/ Running /\ http = "serving" /\ HealthCall
  \/ Running /\ HealthService
  \/ Running /\ HealthInitLock
  \/ Running /\ HealthInitUnlock
  \/ Running /\ HealthWrite
  \/ Running /\ HealthReturn

MainSpec == Init /\ [][MainNext]_vars

\* The argument loops of main() alone, over flag values of every shape.
ArgsNext ==
  \/ FlagParse(Entries)
  \/ MainInitArg
  \/ MainInitArgsDone
  \/ MainServiceArg
  \/ MainServiceArgsDone

ArgsSpec == Init /\ [][ArgsNext]_vars

-----------------------------------------------------------------------------
\* prefixedWriter.Write as a program of its own: one call per step, on a
\* writer of the revision that runs.

Write(name, p, failAt) ==
  /\ LET r == prefixedWriterWrite(rev, name, p, failAt) IN
       pw' = [called |-> TRUE, name |-> name, p |-> p, failAt |-> failAt,
              out |-> r.out, n |-> r.n, err |-> r.err]
  /\ UNCHANGED <<mainVars, rev, processes, cmd, initDone, wg, initWg, startVars,
                 pcRun, healthVars, calm>>

WriterNext ==
  \E name \in WriterNames, p \in Strings(MaxLen), failAt \in 0..2 :
    Write(name, p, failAt)

WriterSpec == Init /\ [][WriterNext]_vars

-----------------------------------------------------------------------------
\* Properties

InitTaskSet == {i \in Tasks : IsInit(i)}
ServiceTaskSet == {i \in Tasks : IsService(i)}

\* The runner of task i has returned.
Terminal(i) == pcRun[i] = "done"

\* Task i's child was launched and has ended.
Ended(i) == cmd[i].state \in {"exited", "signaled", "waitfailed"}

\* The runner of task i was started (for a service: go m.runServiceTask).
Launched(i) == pcRun[i] # "none"

\* C1: once an init task has ended with success=false, no service task is
\* launched: its runner is never started, its child is never started and its
\* alive flag stays false.
C1_NoServiceAfterInitFailure ==
  (\E i \in InitTaskSet : Terminal(i) /\ ~processes[i].Success)
    => \A j \in ServiceTaskSet :
         /\ ~Launched(j)
         /\ cmd[j].state = "new"
         /\ ~processes[j].Alive

C1_Witness ==
  /\ pcStart = "returned"
  /\ startErr = "error"
  /\ ServiceTaskSet # {}
  /\ \E i \in InitTaskSet :
       Terminal(i) /\ ~processes[i].Success /\ cmd[i].state = "exited"

\* C2: a service runner is started only when the init gate is closed and
\* every init task is terminal: runner returned, outcome recorded, alive=false.
C2_InitBeforeService ==
  \A j \in ServiceTaskSet :
    Launched(j) =>
      /\ initDone
      /\ \A i \in InitTaskSet :
           /\ Terminal(i)
           /\ ~processes[i].Alive
           /\ cmd[i].state \notin {"new", "running"}

C2_Witness ==
  /\ InitTaskSet # {}
  /\ \E j \in ServiceTaskSet : pcRun[j] = "wait" /\ processes[j].Alive

\* Every init task has ended with success=true, or there is none, and Start
\* has been called.
AllInitSucceeded ==
  /\ pcStart # "new"
  /\ \A i \in InitTaskSet : Terminal(i) /\ processes[i].Success

\* C3: when every init task has ended with success=true (or there is none),
\* every service runner is eventually started by Start and gets past its
\* launch, and a service whose launch succeeded has alive=true from then
\* until its child ends.
C3_ServicesEventuallyLaunched ==
  /\ AllInitSucceeded
       ~> (\A j \in ServiceTaskSet : pcRun[j] \in {"wait", "done"})
  /\ [](\A j \in ServiceTaskSet : pcRun[j] = "wait" => processes[j].Alive)

C3_Witness ==
  /\ InitTaskSet # {}
  /\ AllInitSucceeded
  /\ ServiceTaskSet # {}
  /\ \A j \in ServiceTaskSet : processes[j].Alive

\* C9: after the init runner has returned for a launched child, exitCode is
\* the reported exit status and success says whether it is 0; for a child
\* ended by a signal or a failed wait, exitCode = -1 and success = false.
C9_InitExitRecorded ==
  \A i \in InitTaskSet :
    (Terminal(i) /\ Ended(i)) =>
      IF cmd[i].state = "exited"
      THEN /\ processes[i].ExitCode = cmd[i].status
           /\ processes[i].Success = (cmd[i].status = 0)
      ELSE /\ processes[i].ExitCode = -1
           /\ processes[i].Success = FALSE

C9_Witness ==
  \E i \in InitTaskSet :
    /\ Terminal(i)
    /\ cmd[i] = [state |-> "exited", status |-> 3]
    /\ processes[i].ExitCode = 3
    /\ ~processes[i].Success

\* C10: after the service runner has returned for a launched child, exitCode
\* is the reported exit status, or -1 for a signal or a failed wait.
C10_ServiceExitRecorded ==
  \A j \in ServiceTaskSet :
    (Terminal(j) /\ Ended(j)) => processes[j].ExitCode = ExitErrorCode(cmd[j])

\* The name and the status word of a report line; "" for a short line.
NameOf(line) == IF Len(line) >= 2 THEN line[1] ELSE ""
StatusOf(line) == IF Len(line) >= 2 THEN line[2] ELSE ""

\* The status word of a line is the positive one.
Positive(line) == StatusOf(line) \in {"Healthy", "Completed"}

\* The two short answers of the handler.
NoProcessesReport == [code |-> StatusOK, body |-> <<Header, NoProcesses>>]
InProgressReport ==
  [code |-> StatusInternalServerError, body |-> <<Header, InProgress>>]

\* r is an answer with one line per task (neither of the short answers).
IsTaskReport(r) ==
  /\ r.code # 0
  /\ r.body # NoProcessesReport.body
  /\ r.body # InProgressReport.body

\* The step in which the handler writes its answer.
Answering == pcHealth # "answered" /\ pcHealth' = "answered"

\* A health query is in flight and no answer has been written yet.
HealthPending == pcHealth \in {"loop", "unlock"}

\* C4: a health query that has been received is eventually answered, in
\* whatever state it was received.
C4_HealthAlwaysAnswers == HealthPending ~> (pcHealth = "answered")

OnlyInitTasks == Len(processes) > 0 /\ ServiceTaskSet = {}

\* r lists the init tasks of an init-only task set, one line each, with the
\* status word and the HTTP status that their success values ask for.
InitReport(r) ==
  /\ Len(r.body) = Len(processes) + 1
  /\ r.body[1] = Header
  /\ \A k \in Tasks :
       /\ NameOf(r.body[k + 1]) = processes[k].Name
       /\ StatusOf(r.body[k + 1]) =
            (IF processes[k].Success THEN "Completed" ELSE "Failed")
  /\ r.code = (IF \A k \in Tasks : processes[k].Success
               THEN StatusOK ELSE StatusInternalServerError)

\* Once an answer with one line per task has been written, the next answer
\* is not the "in progress" one.
NoInProgressAfterReport ==
  [][(Answering /\ IsTaskReport(w)) => w' # InProgressReport]_vars

\* C5 as stated: for an init-only task set, an answer written before every
\* init task is terminal is the "in progress" one, an answer written after
\* that lists every init task with its success value, and "in progress" is
\* not answered again after such a list.
C5_InitOnlyReportByTermination ==
  /\ [][(Answering /\ OnlyInitTasks) =>
          IF \A i \in Tasks : Terminal(i)
          THEN InitReport(w')
          ELSE w' = InProgressReport]_vars
  /\ NoInProgressAfterReport

\* C5 amended: the switch is the init gate, not the termination of the last
\* init task.  For an init-only task set, an answer written while the gate is
\* open is the "in progress" one, an answer written once it is closed lists
\* every init task with its success value, and "in progress" is not answered
\* again after such a list.
C5_InitOnlyReportByGate ==
  /\ [][(Answering /\ OnlyInitTasks) =>
          IF initDone
          THEN InitReport(w')
          ELSE w' = InProgressReport]_vars
  /\ NoInProgressAfterReport

C5_Witness ==
  /\ OnlyInitTasks
  /\ initDone
  /\ pcHealth = "answered"
  /\ InitReport(w)
  /\ \E k \in Tasks : StatusOf(w.body[k + 1]) = "Failed"
  /\ \E k \in Tasks : StatusOf(w.body[k + 1]) = "Completed"

\* C6: with an empty task set every answer is the healthy "No processes
\* configured" one, whether the init gate is open or closed.
C6_EmptyIsHealthy ==
  (Len(processes) = 0 /\ w.code # 0) => w = NoProcessesReport

C6_Witness ==
  /\ Len(processes) = 0
  /\ initDone
  /\ pcHealth = "answered"
  /\ w = NoProcessesReport

\* An answer with one line per task is a 200 exactly if every line is
\* positive, and each init line agrees with the task's success value.
StatusIffAllPositive ==
  IsTaskReport(w) =>
    /\ (w.code = StatusOK) <=> (\A k \in 2..Len(w.body) : Positive(w.body[k]))
    /\ w.code \in {StatusOK, StatusInternalServerError}
    /\ \A k \in InitTaskSet :
         k + 1 <= Len(w.body) =>
           (StatusOf(w.body[k + 1]) = "Completed" <=> processes[k].Success)

\* A query runs with the gate closed while an init task has exited with
\* status 1.
FailedInitQueried ==
  /\ initDone
  /\ HealthPending
  /\ \E i \in InitTaskSet :
       Terminal(i) /\ cmd[i] = [state |-> "exited", status |-> 1]

FailedInitAnswered ==
  /\ pcHealth = "answered"
  /\ w.code = StatusInternalServerError
  /\ \E k \in 2..Len(w.body) : StatusOf(w.body[k]) = "Failed"

\* C7: with a non-empty task set and the gate closed, the answer is a 200
\* exactly if every line is positive, and a query made when an init task has
\* exited with status 1 is answered with a 500 and a "Failed" line.
C7_StatusByTaskState ==
  /\ []StatusIffAllPositive
  /\ FailedInitQueried ~> FailedInitAnswered

\* C8: an answer with one line per task has, after the header, exactly one
\* line for each task of m.processes, in the order of m.processes, and each
\* line carries a status word of its task's type.
C8_OneLinePerTaskInOrder ==
  IsTaskReport(w) =>
    /\ initDone
    /\ Len(w.body) = Len(processes) + 1
    /\ w.body[1] = Header
    /\ \A k \in Tasks :
         /\ NameOf(w.body[k + 1]) = processes[k].Name
         /\ StatusOf(w.body[k + 1]) \in
              (IF IsInit(k) THEN {"Completed", "Failed"}
               ELSE {"Healthy", "Unhealthy"})

C8_Witness ==
  /\ Len(processes) = 2
  /\ IsInit(1)
  /\ IsService(2)
  /\ pcHealth = "answered"
  /\ w.code = StatusOK
  /\ StatusOf(w.body[2]) = "Completed"
  /\ StatusOf(w.body[3]) = "Healthy"

\* The launch of task i's child failed (proc.Cmd.Start() returned an error).
LaunchFailed(i) == cmd[i].state = "startfailed"

\* C11: when the launch of an init task's child fails, the alive flag is
\* never set, the runner records success=false and exitCode=-1 and returns
\* (it is on its way out or has returned, and its next step is never
\* blocked), and Start evaluates the init phase as failed: it never goes on
\* to the services and returns an error.
C11_InitLaunchFailure ==
  \A i \in InitTaskSet :
    LaunchFailed(i) =>
      /\ ~processes[i].Alive
      /\ pcRun[i] \in {"startfailed", "failunlock", "done"}
      /\ pcRun[i] = "startfailed" => ENABLED RunInitStartFailed(i)
      /\ pcRun[i] = "failunlock" => ENABLED RunInitFailUnlock(i)
      /\ Terminal(i) => (~processes[i].Success /\ processes[i].ExitCode = -1)
      /\ pcStart \notin {"close", "service_spawn"}
      /\ startErr # "nil"
      /\ pcStart = "returned" => startErr = "error"

C11_Witness ==
  /\ pcStart = "returned"
  /\ startErr = "error"
  /\ ServiceTaskSet # {}
  /\ \E i \in InitTaskSet :
       /\ LaunchFailed(i)
       /\ Terminal(i)
       /\ processes[i].ExitCode = -1
       /\ ~processes[i].Success

\* C12: after the service runner has returned for a child whose launch
\* failed, the task has alive=false, exitCode=-1 and success=false.
C12_ServiceLaunchFailureRecorded ==
  \A j \in ServiceTaskSet :
    (LaunchFailed(j) /\ Terminal(j)) =>
      /\ ~processes[j].Alive
      /\ processes[j].ExitCode = -1
      /\ ~processes[j].Success

\* How far the runner of a task has come.
RunnerRank(pc) ==
  CASE pc = "none" -> 0
    [] pc = "start" -> 1
    [] pc \in {"startfailed", "setalive"} -> 2
    [] pc \in {"failunlock", "wait"} -> 3
    [] pc = "unlock" -> 4
    [] pc = "clear" -> 5
    [] pc = "done" -> 6

\* C13: no task is restarted.  A child is launched only from the state in
\* which it was never launched, and an ended child stays ended; a runner
\* never goes back; the alive flag rises only in the one step that follows
\* the launch, and once it is false after the child has ended or failed to
\* launch it stays false.
C13_NoRestart ==
  [][\A i \in Tasks :
       /\ (cmd'[i].state = "running" /\ cmd[i].state # "running")
            => cmd[i].state = "new"
       /\ cmd[i].state \notin {"new", "running"} => cmd'[i] = cmd[i]
       /\ RunnerRank(pcRun'[i]) >= RunnerRank(pcRun[i])
       /\ (~processes[i].Alive /\ processes'[i].Alive)
            => (cmd[i].state = "running" /\ pcRun[i] = "setalive"
                /\ pcRun'[i] = "wait")
       /\ ((Ended(i) \/ LaunchFailed(i)) /\ ~processes[i].Alive)
            => ~processes'[i].Alive]_vars

C13_Witness ==
  /\ \E j \in ServiceTaskSet :
       /\ Terminal(j)
       /\ cmd[j] = [state |-> "exited", status |-> 1]
       /\ ~processes[j].Alive
  /\ \E i \in InitTaskSet :
       /\ Terminal(i)
       /\ cmd[i] = [state |-> "exited", status |-> 0]
       /\ ~processes[i].Alive

\* C17: health queries are idempotent.  When an answer is written by a query
\* that began after another query, with no change of any task's state or of
\* the gate since that earlier query began, it is the same answer, body and
\* status, as the earlier one.
C17_HealthIdempotent ==
  [][(Answering /\ calm' = 2 /\ w.code # 0) => w' = w]_vars

C17_Witness ==
  /\ calm = 2
  /\ pcHealth = "answered"
  /\ IsTaskReport(w)
  /\ w.code = StatusInternalServerError
  /\ \E j \in ServiceTaskSet : pcRun[j] = "wait" /\ processes[j].Alive
  /\ \E j \in ServiceTaskSet : Terminal(j) /\ Ended(j)

\* No termination signal has been received.
NoSignal == pcSig \in {"none", "waiting"}

\* A service runner that Start has spawned has not returned yet.
ServicePending == \E j \in ServiceTaskSet : Launched(j) /\ ~Terminal(j)

\* C14: after Start has returned an error for a failed init phase, the
\* supervisor process keeps running (and its health endpoint with it) as long
\* as no termination signal has arrived.
C14_StaysUpAfterInitFailure ==
  (startErr = "error" /\ NoSignal /\ http # "bindfailed") => Running

\* C18: when Shutdown has returned, the join counter is zero, every service
\* runner that Start spawned has returned and no service has alive=true;
\* Shutdown is called only after Start has returned.
C18_ShutdownJoinsServices ==
  /\ pcSig # "none" => pcStart = "returned"
  /\ pcSig \in {"returned", "exited"} =>
       /\ wg = 0
       /\ ~ServicePending
       /\ \A j \in ServiceTaskSet : ~processes[j].Alive

C18_Witness ==
  /\ pcSig = "returned"
  /\ Running
  /\ Len(processes) = MaxTasks
  /\ \A j \in Tasks : IsService(j) /\ Terminal(j) /\ Ended(j)

\* C19: Wait is called after Start has returned; the join counter is the
\* number of service runners spawned and not yet returned; Wait has not
\* returned while one of them is pending; and once none is pending Wait is
\* free to return.
C19_WaitJoinsServices ==
  /\ pcMain \in {"wait", "waited", "returned"} => pcStart = "returned"
  /\ wg = Cardinality({j \in ServiceTaskSet : Launched(j) /\ ~Terminal(j)})
  /\ pcMain \in {"waited", "returned"} => ~ServicePending
  /\ (Running /\ pcMain = "wait" /\ ~ServicePending)
       => ENABLED (Running /\ Wait)

C19_Witness ==
  /\ pcMain = "waited"
  /\ Len(processes) = MaxTasks
  /\ \A j \in Tasks : IsService(j) /\ Terminal(j) /\ Ended(j)

\* C20 as stated: after a failed bind of the health listener, with services
\* still running and no termination signal, the supervisor keeps running.
C20_BindFailureOnlyHealth ==
  (http = "bindfailed" /\ NoSignal /\ ServicePending) => Running

\* C20 amended: a failed bind ends the supervisor process at once, services
\* running or not; with the listener bound or disabled the process ends only
\* when no spawned service runner is pending, by the return of main after
\* Wait or by the exit that follows Shutdown.
C20_BindFailureIsFatal ==
  /\ http = "bindfailed" => exit = "fatal"
  /\ (exit = "fatal" /\ pcMain # "fatal") => http = "bindfailed"
  /\ exit \in {"returned", "signal"} => ~ServicePending
  /\ exit = "returned" => pcMain = "returned"
  /\ exit = "signal" => pcSig = "exited"

C20_Witness ==
  /\ http = "bindfailed"
  /\ exit = "fatal"
  /\ NoSignal
  /\ \E j \in ServiceTaskSet : pcRun[j] = "wait" /\ processes[j].Alive

\* The first colon of s comes before any white space of s.
ColonBeforeSpace(s) ==
  \E k \in 1..Len(s) :
    s[k] = Colon /\ \A j \in 1..(k - 1) : s[j] \notin {Colon, Space}

\* The step of an argument loop that adds a task.
ArgAdding ==
  /\ pcMain \in {"init_args", "service_args"}
  /\ Len(processes') = Len(processes) + 1

\* C15: the task added for an entry has, when the entry's first colon comes
\* before any white space, the text before that colon as name and the text
\* after it as command; otherwise the generated name ("init" or "app" and
\* the position from 1) and the whole entry as command.  Surrounding white
\* space is not compared.
C15_AliasSplitRule ==
  [][ArgAdding =>
       LET init == pcMain = "init_args"
           cmdStr == IF init THEN initCommands[argI + 1]
                     ELSE commands[argI + 1]
           parts == SplitN(cmdStr)
           proc == processes'[Len(processes')]
       IN IF ColonBeforeSpace(cmdStr)
          THEN /\ proc.Name = Join(TrimSpace(parts[1]))
               /\ proc.Command = Join(TrimSpace(parts[2]))
          ELSE /\ proc.Name = (IF init THEN "init" ELSE "app")
                                 \o ToString(argI + 1)
               /\ proc.Command = Join(TrimSpace(cmdStr))]_vars

\* C16: no two tasks of the manager have the same name.
C16_NamesUnique ==
  \A i \in Tasks : \A j \in Tasks :
    i # j => processes[i].Name # processes[j].Name

\* An init task has ended with success=false.
SomeInitFailed == \E i \in InitTaskSet : Terminal(i) /\ ~processes[i].Success

\* C21: Start returns the phase-failure error exactly when at least one init
\* task has ended with success=false, and nil in every other case (an empty
\* task list and a list without init tasks included); the result is produced
\* by Start's own return, and once only.
C21_StartErrorIffInitFailed ==
  /\ [](pcStart = "returned" =>
          /\ startErr \in {"nil", "error"}
          /\ startErr = "error" <=> SomeInitFailed
          /\ InitTaskSet = {} => startErr = "nil")
  /\ [](pcStart # "returned" => startErr = "none")
  /\ [][startErr # "none" => startErr' = startErr]_vars

C21_Witness ==
  /\ rev = "manager"
  /\ pcStart = "returned"
  /\ startErr = "error"
  /\ SomeInitFailed
  /\ \E i \in InitTaskSet : Terminal(i) /\ processes[i].Success

\* Init task i was never run: no runner, no child, the fields as AddProcess
\* left them.
NeverRun(i) ==
  /\ pcRun[i] = "none"
  /\ cmd[i] = NewCmd
  /\ ~processes[i].Alive
  /\ processes[i].ExitCode = 0
  /\ ~processes[i].Success

GateClose ==
  \/ StartClose
  \/ StartInitFailed
  \/ StartInitEval /\ ~allInitSuccess

\* C23: the init gate is closed exactly once on every path of Start: it is
\* closed when Start has returned, close(m.initDone) is executed only on an
\* open gate, the gate changes only by such a step, and a closed gate stays
\* closed.
C23_GateClosedOnce ==
  /\ [](pcStart = "returned" => initDone)
  /\ [][GateClose => ~initDone]_vars
  /\ [][initDone' # initDone => GateClose]_vars
  /\ [][initDone => initDone']_vars

C23_Witness ==
  /\ rev = "main"
  /\ pcStart = "returned"
  /\ startErr = "error"
  /\ initDone

\* The fields of task i that proc.mu is there to guard.
Triple(i) ==
  <<processes[i].Alive, processes[i].ExitCode, processes[i].Success>>

\* C24: every write of a task's alive, exitCode or success is made by a step
\* that holds that task's lock, and the handler reads a service task's
\* fields with the lock held, as it does for an init task.
C24_FieldsUnderLock ==
  /\ [][\A i \in Tasks :
          Triple(i)' # Triple(i) => processes'[i].mu = "Runner"]_vars
  /\ [][HealthService => processes[healthI].mu = "Health"]_vars

ServiceRunning == \E j \in ServiceTaskSet : cmd[j].state = "running"

HealthHolds == \E i \in Tasks : processes[i].mu = "Health"

\* C27: a health query is a pure read: no step of the handler changes the
\* task sequence, a task's alive/exitCode/success, the children, the gate or
\* the join counters; the only thing a step of it changes in a task is that
\* task's lock, taken and released by the handler itself; and when the
\* handler has answered or is idle it holds no lock.
C27_HealthPureRead ==
  /\ [][HealthCheckHandler =>
          /\ TaskState' = TaskState
          /\ cmd' = cmd /\ wg' = wg /\ initWg' = initWg /\ pcRun' = pcRun
          /\ \A i \in Tasks :
               processes'[i].mu # processes[i].mu =>
                 {processes[i].mu, processes'[i].mu} = {"free", "Health"}]_vars
  /\ [](pcHealth \in {"idle", "answered"} => ~HealthHolds)

C27_Witness ==
  /\ pcHealth = "answered"
  /\ initDone
  /\ InitTaskSet # {}
  /\ Len(w.body) = Len(processes) + 1
  /\ \A i \in Tasks : processes[i].mu = "free"

\* A step of the runner of task i.
RunnerStep(i) ==
  CmdStart(i) \/ SetAlive(i) \/ runInitTask(i) \/ runServiceTask(i)

\* C28: a task's alive, exitCode and success are changed only by a step of
\* the runner of that same task; a step of Start, Shutdown, Wait or the
\* health handler changes no task's triple.
C28_TripleOwnedByRunner ==
  /\ [][\A i \in Tasks : Triple(i)' # Triple(i) => RunnerStep(i)]_vars
  /\ [][(Start \/ Shutdown \/ Wait \/ HealthCheckHandler) =>
          \A i \in Tasks : Triple(i)' = Triple(i)]_vars

C28_Witness ==
  /\ Len(processes) = MaxTasks
  /\ \E i, j \in Tasks :
       /\ i # j
       /\ pcRun[i] = "wait" /\ processes[i].Alive
       /\ Terminal(j) /\ processes[j].ExitCode # 0

\* The non-empty lines of p, in order.
NonEmptyLines(p) == SelectSeq(Split(p), LAMBDA line : line # <<>>)

\* The chunk c is the line prefixed with "[name] ", with or without a
\* newline at its end.
PrefixedLine(c, name, line) ==
  \/ c = Prefix(name) \o line
  \/ c = Prefix(name) \o line \o <<Newline>>

\* C29: on an underlying writer that does not fail, Write(p) returns
\* n = len(p) and a nil error (0 and nil for the empty input), and hands on
\* every non-empty line of p, in order, prefixed with "[name] ".
C29_WriteReturnsLen ==
  (pw.called /\ pw.failAt = 0) =>
    /\ pw.n = Len(pw.p)
    /\ pw.err = "nil"
    /\ Len(pw.out) = Len(NonEmptyLines(pw.p))
    /\ \A k \in 1..Len(pw.out) :
         PrefixedLine(pw.out[k], pw.name, NonEmptyLines(pw.p)[k])

\* C30: every lock taken by Start, a runner or the handler is released on
\* every path: when Start has returned it holds no task's lock, a runner
\* that has returned does not hold its task's lock, and the handler holds
\* none when it is idle or has answered.
C30_LocksReleased ==
  /\ pcStart = "returned" => \A i \in Tasks : processes[i].mu # "Start"
  /\ \A i \in Tasks : Terminal(i) => processes[i].mu # "Runner"
  /\ pcHealth \in {"idle", "answered"} => ~HealthHolds

\* The line the handler has just added to its response.
LastLine == response'[Len(response')]

\* The child of service j was launched and has not ended.
ServiceUp(j) == cmd[j].state = "running" /\ pcRun[j] = "wait"

\* C31 as stated: with every init task successful, the handler renders a
\* service as "Unhealthy", and turns the overall status unhealthy, only if
\* the service's launch failed or its child has ended.
C31_UnhealthyOnlyAfterFailure ==
  [][(HealthService /\ AllInitSucceeded /\ StatusOf(LastLine) = "Unhealthy")
       => (LaunchFailed(healthI) \/ Ended(healthI))]_vars

\* C31 amended: the handler renders a service as "Healthy" exactly when its
\* child is launched, running and flagged alive at the read; a service whose
\* runner has not launched the child yet or has not set alive yet is
\* rendered "Unhealthy" like a failed or ended one, and turns the overall
\* status unhealthy.
C31_UnhealthyUntilAlive ==
  /\ [](\A j \in ServiceTaskSet : processes[j].Alive <=> ServiceUp(j))
  /\ [][HealthService =>
          /\ StatusOf(LastLine) =
               (IF ServiceUp(healthI) THEN "Healthy" ELSE "Unhealthy")
          /\ allHealthy' = (allHealthy /\ ServiceUp(healthI))]_vars

C31_Witness ==
  /\ pcHealth = "answered"
  /\ initDone
  /\ w.code = StatusInternalServerError
  /\ Len(processes) = MaxTasks
  /\ AllInitSucceeded
  /\ Len(w.body) = Len(processes) + 1
  /\ \E j \in ServiceTaskSet :
       /\ StatusOf(w.body[j + 1]) = "Unhealthy"
       /\ cmd[j].state = "new"

====
